---- MODULE Spec2Model ----
(***************************************************************************)
(* dll::dyn_batch_normalization_4d_layer                                   *)
(* (include/dll/neural/dyn_batch_normalization_layer_4d.inl)               *)
(*                                                                         *)
(* The layer is modelled in exact arithmetic.  A weight is a rational      *)
(* <<num, den>> in lowest terms.  A value that went through                *)
(* 1.0 / etl::sqrt(v + e) is kept symbolically: a polynomial in            *)
(* s = 1/sqrt(v + e) with rational coefficients, tagged with v, so that    *)
(* the constant e never has to be rounded.  Floating-point rounding is     *)
(* not modelled.  A 4d tensor t[B,K,W,H] is t[b][k][p], p running over the *)
(* W*H positions of one feature map.                                       *)
(***************************************************************************)
EXTENDS Integers, Sequences, FiniteSets, TLC

\* ------------------------------------------------------------ bounds
\* the largest batch
MaxB == 2
\* training forward passes in a behaviour of Spec
MaxTrain == 1
\* training forward passes in a behaviour of SpecForward
MaxPasses == 2

\* ------------------------------------------------------------ rationals
Abs(x) == IF x < 0 THEN -x ELSE x

RECURSIVE Gcd(_, _)
Gcd(a, b) == IF b = 0 THEN a ELSE Gcd(b, a % b)

Rat(n, d) ==
    LET g == Gcd(Abs(n), Abs(d))
        s == IF d < 0 THEN -1 ELSE 1
    IN  <<s * (n \div g), s * (d \div g)>>

RInt(n) == <<n, 1>>
R0 == RInt(0)
R1 == RInt(1)
RAdd(x, y) == Rat(x[1] * y[2] + y[1] * x[2], x[2] * y[2])
RNeg(x) == <<-x[1], x[2]>>
RSub(x, y) == RAdd(x, RNeg(y))
RMul(x, y) == Rat(x[1] * y[1], x[2] * y[2])
RDiv(x, y) == Rat(x[1] * y[2], x[2] * y[1])
RLt(x, y) == x[1] * y[2] < y[1] * x[2]
RLe(x, y) == x[1] * y[2] <= y[1] * x[2]

\* the sequence f[1], ..., f[n], every element evaluated once
RECURSIVE TupN(_, _)
TupN(n, f) == IF n = 0 THEN <<>> ELSE Append(TupN(n - 1, f), f[n])

RECURSIVE SumR(_)
SumR(q) == IF q = <<>> THEN R0 ELSE RAdd(Head(q), SumR(Tail(q)))

\* ------------------------------------------------------------ symbolic values
\* [tag |-> v, c |-> <<c0, c1, ..., cn>>] is c0 + c1*s + ... + cn*s^n with
\* s = 1/sqrt(v + e).  A plain rational has at most the coefficient c0 and
\* the tag NoTag; a value mixing two different roots has the tag Mixed.
NoTag == <<0, 0>>
Mixed == <<1, 0>>

RECURSIVE PNorm(_)
PNorm(c) ==
    IF c = <<>> THEN <<>>
    ELSE IF c[Len(c)] = R0 THEN PNorm(SubSeq(c, 1, Len(c) - 1))
    ELSE c

Sym(tag, c) ==
    LET n == PNorm(TupN(Len(c), c))
    IN  [tag |-> IF Len(n) <= 1 THEN NoTag ELSE tag, c |-> n]

SymR(r) == Sym(NoTag, <<r>>)
SZero == SymR(R0)
Coef(c, i) == IF i >= 1 /\ i <= Len(c) THEN c[i] ELSE R0

JoinTag(x, y) ==
    IF x.tag = NoTag THEN y.tag
    ELSE IF y.tag = NoTag \/ y.tag = x.tag THEN x.tag
    ELSE Mixed

SAdd(x, y) ==
    LET n == IF Len(x.c) > Len(y.c) THEN Len(x.c) ELSE Len(y.c)
    IN  Sym(JoinTag(x, y), [i \in 1..n |-> RAdd(Coef(x.c, i), Coef(y.c, i))])

SScale(r, x) == Sym(x.tag, [i \in 1..Len(x.c) |-> RMul(r, x.c[i])])
SNeg(x) == SScale(RInt(-1), x)
SSub(x, y) == SAdd(x, SNeg(y))
SAddR(x, r) == SAdd(x, SymR(r))

SMul(x, y) ==
    IF x.c = <<>> \/ y.c = <<>> THEN SZero
    ELSE Sym(JoinTag(x, y),
             [i \in 1..(Len(x.c) + Len(y.c) - 1) |->
                 SumR([j \in 1..Len(x.c) |-> RMul(x.c[j], Coef(y.c, i - j + 1))])])

RECURSIVE SumS(_)
SumS(q) == IF q = <<>> THEN SZero ELSE SAdd(Head(q), SumS(Tail(q)))

\* 1.0 / etl::sqrt(v + e)
InvSqrt(v) == [tag |-> v, c |-> <<R0, R1>>]

\* e = 1/e_inv
e_inv == 100000000

\* ------------------------------------------------------------ state
VARIABLES
    op,             \* the member function (or engine step) that ran last
    Kernels, W, H,
    gamma, beta,
    mean, var,
    last_mean, last_var, inv_var,
    input_pre,
    ctx_input, ctx_errors, w_grad, b_grad,
    call_input,     \* the input argument of the call that ran last (Null: it has none)
    call_output,    \* the output argument it wrote (Null: it has none)
    ntrain

layer == <<Kernels, W, H, gamma, beta, mean, var, last_mean, last_var, inv_var, input_pre>>
context == <<ctx_input, ctx_errors, w_grad, b_grad>>
vars == <<op, layer, context, call_input, call_output, ntrain>>

momentum == Rat(9, 10)

\* an empty etl::dyn_matrix (no memory, every dimension 0)
Null == <<>>

\* ------------------------------------------------------------ tensors
Dim0(t) == Len(t)
Positions == 1..(W * H)
Shape(t) == IF t = Null THEN <<0, 0, 0>> ELSE <<Len(t), Len(t[1]), Len(t[1][1])>>

\* the elements of channel k, over every sample and position
Channel(t, k) ==
    LET P == Len(t[1][k])
    IN  TupN(Len(t) * P, [i \in 1..(Len(t) * P) |-> t[((i - 1) \div P) + 1][k][((i - 1) % P) + 1]])

\* etl::bias_batch_sum_4d: per channel, the sum over samples and positions
bias_batch_sum_4d(t) == TupN(Len(t[1]), [k \in 1..Len(t[1]) |-> SumS(Channel(t, k))])

\* etl::bias_batch_mean_4d on a tensor of weights
bias_batch_mean_4d(t) ==
    TupN(Len(t[1]), [k \in 1..Len(t[1]) |->
        RDiv(SumR(Channel(t, k)), RInt(Len(t) * Len(t[1][k])))])

ToSym(t) ==
    TupN(Len(t), [b \in 1..Len(t) |-> TupN(Len(t[b]), [k \in 1..Len(t[b]) |->
        TupN(Len(t[b][k]), [p \in 1..Len(t[b][k]) |-> SymR(t[b][k][p])])])])

\* ------------------------------------------------------------ inputs
\* the layer dimensions <<Kernels, W, H>> given to init_layer
Dims == {<<1, 1, 1>>, <<2, 1, 2>>}

\* what a freshly allocated etl::dyn_vector<weight>(n) may hold: the
\* constructor allocates and assigns nothing
Uninit == {R0, RInt(-1)}
Fresh(n) == {[k \in 1..n |-> g] : g \in Uninit}

\* input batches: in channel 1 the i-th element (over samples and positions)
\* is 2 everywhere ("const") or alternates 2, 4 ("alt"); channel k holds k
\* times that plus (k-1)*i
InPats == {"const", "alt"}
InBase(pat, i) == IF pat = "const" \/ i % 2 = 1 THEN 2 ELSE 4
Batch(B, K, P, pat) ==
    [b \in 1..B |-> [k \in 1..K |-> [p \in 1..P |->
        LET i == (b - 1) * P + p
        IN  RInt(k * InBase(pat, i) + (k - 1) * i)]]]
Inputs(B) == {Batch(B, Kernels, W * H, pat) : pat \in InPats}

\* upstream errors: all 1 ("ones") or 1, 2, 3, ... ("ramp"), plus k-1 in channel k
ErrPats == {"ones", "ramp"}
ErrBatch(B, K, P, pat) ==
    [b \in 1..B |-> [k \in 1..K |-> [p \in 1..P |->
        LET i == (b - 1) * P + p
        IN  RInt((IF pat = "ones" THEN 1 ELSE i) + (k - 1))]]]

\* what the optimizer may leave in gamma and beta
GammaVals == {RInt(2)}
BetaVals == {R1}

\* ------------------------------------------------------------ construction
\* dyn_batch_normalization_4d_layer(): nothing is allocated
Init ==
    /\ op = "new"
    /\ Kernels = 0 /\ W = 0 /\ H = 0
    /\ gamma = Null /\ beta = Null
    /\ mean = Null /\ var = Null
    /\ last_mean = Null /\ last_var = Null /\ inv_var = Null
    /\ input_pre = Null
    /\ ctx_input = Null /\ ctx_errors = Null /\ w_grad = Null /\ b_grad = Null
    /\ call_input = Null /\ call_output = Null
    /\ ntrain = 0

\* init_layer(Kernels, W, H), called once
init_layer(d) ==
    /\ op = "new"
    /\ op' = "init"
    /\ Kernels' = d[1] /\ W' = d[2] /\ H' = d[3]
    /\ gamma' = [k \in 1..d[1] |-> R1]
    /\ beta' = [k \in 1..d[1] |-> R0]
    /\ mean' \in Fresh(d[1])
    /\ var' \in Fresh(d[1])
    /\ last_mean' \in Fresh(d[1])
    /\ last_var' \in Fresh(d[1])
    /\ \E g \in Fresh(d[1]) : inv_var' = [k \in 1..d[1] |-> SymR(g[k])]
    /\ UNCHANGED <<input_pre, context, call_input, call_output, ntrain>>

\* ------------------------------------------------------------ inference
\* line 125: the local inv_var, from the running variance
test_inv_var == [k \in 1..Kernels |-> InvSqrt(var[k])]

\* (mutant) the input centred on the statistics of the batch at hand
test_center_batch(input, k) == bias_batch_mean_4d(input)[k]

\* line 129: what the input is centred on
test_center(input, k) == mean[k]

\* line 129: output(b)(k)
test_output(input) ==
    [b \in 1..Dim0(input) |-> [k \in 1..Kernels |-> [p \in Positions |->
        SAddR(SScale(gamma[k],
                     SScale(RSub(input[b][k][p], test_center(input, k)), test_inv_var[k])),
              beta[k])]]]

\* (mutant) line 125 without "auto": the member inv_var is overwritten
test_member_inv_var_assigned == test_inv_var

\* line 125: the declaration shadows the member, which keeps its value
test_member_inv_var == inv_var

test_batch_activate_hidden(input) ==
    /\ op \in {"init", "weights", "train", "errors", "infer"}
    /\ op' = "infer"
    /\ call_input' = input
    /\ call_output' = test_output(input)
    /\ inv_var' = test_member_inv_var
    /\ UNCHANGED <<Kernels, W, H, gamma, beta, mean, var, last_mean, last_var, input_pre>>
    /\ UNCHANGED <<context, ntrain>>

\* ------------------------------------------------------------ training forward
\* (mutant) the sum of squares divided by S - 1
batch_var_unbiased(input, lm) ==
    TupN(Kernels, [k \in 1..Kernels |->
        LET ch == Channel(input, k)
        IN  RDiv(SumR(TupN(Len(ch), [i \in 1..Len(ch) |->
                          RMul(RSub(ch[i], lm[k]), RSub(ch[i], lm[k]))])),
                 RInt(Dim0(input) * W * H - 1))])

\* lines 150-158: the variance of the mini-batch
batch_var(input, lm) ==
    TupN(Kernels, [k \in 1..Kernels |->
        LET ch == Channel(input, k)
        IN  RDiv(SumR(TupN(Len(ch), [i \in 1..Len(ch) |->
                          RMul(RSub(ch[i], lm[k]), RSub(ch[i], lm[k]))])),
                 RInt(Dim0(input) * W * H))])

\* line 162: input_pre.inherit_if_null(input) takes the dimensions of input
\* (and allocates) only when input_pre has no memory yet
inherit_if_null(pre, input) ==
    IF pre = Null
    THEN [b \in 1..Dim0(input) |-> [k \in 1..Kernels |-> [p \in Positions |-> SZero]]]
    ELSE pre

\* line 166
whiten(input, lm, iv, b, k) ==
    TupN(W * H, [p \in Positions |-> SScale(RSub(input[b][k][p], lm[k]), iv[k])])

\* (mutant) the shift by beta left out
scale_only(xhat, k) ==
    TupN(W * H, [p \in Positions |-> SScale(gamma[k], xhat[p])])

\* line 167
scale_shift(xhat, k) ==
    TupN(W * H, [p \in Positions |-> SAddR(SScale(gamma[k], xhat[p]), beta[k])])

\* line 172
running_mean(m, lm) == RAdd(RMul(momentum, m), RMul(RSub(R1, momentum), lm))

\* line 173: S and S - 1 are size_t, so S / (S - 1) is the integer quotient
running_var(S, v, lv) ==
    RAdd(RMul(momentum, v), RMul(RSub(R1, momentum), RMul(RInt(S \div (S - 1)), lv)))

\* lines 143-173: every value the pass computes, from the state before it
train_forward(input) ==
    LET B == Dim0(input)
        S == B * W * H
        lm == bias_batch_mean_4d(input)
        lv == batch_var(input, lm)
        iv == TupN(Kernels, [k \in 1..Kernels |-> InvSqrt(lv[k])])
        pre0 == inherit_if_null(input_pre, input)
        pre == TupN(Dim0(pre0), [b \in 1..Dim0(pre0) |->
                   IF b <= B
                   THEN TupN(Kernels, [k \in 1..Kernels |-> whiten(input, lm, iv, b, k)])
                   ELSE pre0[b]])
    IN  [last_mean |-> lm,
         last_var |-> lv,
         inv_var |-> iv,
         input_pre |-> pre,
         output |-> TupN(B, [b \in 1..B |->
                       TupN(Kernels, [k \in 1..Kernels |-> scale_shift(pre[b][k], k)])]),
         mean |-> TupN(Kernels, [k \in 1..Kernels |-> running_mean(mean[k], lm[k])]),
         var |-> TupN(Kernels, [k \in 1..Kernels |-> running_var(S, var[k], lv[k])])]

train_batch_activate_hidden(input) ==
    /\ op # "new"
    /\ Dim0(input) * W * H > 1      \* S - 1 = 0 is a division by zero at line 173
    /\ input_pre # Null => Dim0(input) <= Dim0(input_pre)
                                    \* input_pre(b) is indexed for every b < B
    /\ \E r \in {train_forward(input)} :
        /\ last_mean' = r.last_mean
        /\ last_var' = r.last_var
        /\ inv_var' = r.inv_var
        /\ input_pre' = r.input_pre
        /\ call_output' = r.output
        /\ mean' = r.mean
        /\ var' = r.var
    /\ op' = "train"
    /\ ntrain' = ntrain + 1
    /\ call_input' = input
    /\ ctx_input' = input
    /\ UNCHANGED <<Kernels, W, H, gamma, beta, ctx_errors, w_grad, b_grad>>

\* ------------------------------------------------------------ the engine
\* the layers above leave the upstream gradient of the mini-batch in
\* context.errors, which has the dimensions of context.input (line 278)
upstream_errors(pat) ==
    /\ op = "train"
    /\ op' = "errors"
    /\ ctx_errors' = ErrBatch(Dim0(ctx_input), Kernels, W * H, pat)
    /\ call_input' = Null /\ call_output' = Null
    /\ UNCHANGED <<layer, ctx_input, w_grad, b_grad, ntrain>>

\* the context holds the errors of a batch of the cached dimensions: the
\* element-wise products of lines 207 and 226 need equal dimensions
ContextReady ==
    /\ ctx_errors # Null
    /\ Shape(ctx_errors) = Shape(ctx_input)
    /\ Shape(ctx_errors) = Shape(input_pre)

\* ------------------------------------------------------------ backward
\* lines 183-186; "called before backpropagation of the errors" (line 177)
adapt_errors ==
    /\ op = "errors"
    /\ op' = "adapt"
    /\ call_input' = Null /\ call_output' = Null
    /\ UNCHANGED <<layer, context, ntrain>>

\* (mutant) recomputed from the running variance
backward_inv_var_running(k) == test_inv_var[k]

\* line 214: the inverse standard deviation the gradient is scaled by
backward_inv_var(k) == inv_var[k]

\* lines 195-216: the tensor written to output
backward_output ==
    LET B == Dim0(ctx_input)
        S == B * W * H
        dxhat == TupN(B, [b \in 1..B |-> TupN(Kernels, [k \in 1..Kernels |->
                    TupN(W * H, [p \in Positions |->
                        SymR(RMul(ctx_errors[b][k][p], gamma[k]))])])])
        dxhat_l == bias_batch_sum_4d(dxhat)
        dxhat_xhat_l ==
            bias_batch_sum_4d(TupN(B, [b \in 1..B |-> TupN(Kernels, [k \in 1..Kernels |->
                TupN(W * H, [p \in Positions |->
                    SMul(dxhat[b][k][p], input_pre[b][k][p])])])]))
    IN  TupN(B, [b \in 1..B |-> TupN(Kernels, [k \in 1..Kernels |->
            TupN(W * H, [p \in Positions |->
                SMul(SScale(Rat(1, S), backward_inv_var(k)),
                     SSub(SSub(SScale(RInt(S), dxhat[b][k][p]), dxhat_l[k]),
                          SMul(input_pre[b][k][p], dxhat_xhat_l[k])))])])])

backward_batch ==
    /\ ContextReady
    /\ op' = "backward"
    /\ call_input' = Null
    /\ call_output' = backward_output
    /\ UNCHANGED <<layer, context, ntrain>>

\* ------------------------------------------------------------ gradients
\* (mutant) the errors summed against the layer input instead of the cache
w_grad_from_input ==
    LET B == Dim0(ctx_input)
    IN  bias_batch_sum_4d(TupN(B, [b \in 1..B |-> TupN(Kernels, [k \in 1..Kernels |->
            TupN(W * H, [p \in Positions |->
                SymR(RMul(ctx_errors[b][k][p], ctx_input[b][k][p]))])])]))

\* line 226
w_grad_value ==
    LET B == Dim0(input_pre)
    IN  bias_batch_sum_4d(TupN(B, [b \in 1..B |-> TupN(Kernels, [k \in 1..Kernels |->
            TupN(W * H, [p \in Positions |->
                SScale(ctx_errors[b][k][p], input_pre[b][k][p])])])]))

\* line 229
b_grad_value == bias_batch_sum_4d(ToSym(ctx_errors))

\* (mutant) the bias gradient applied to beta on the spot
compute_gradients_applied ==
    /\ ContextReady
    /\ op' = "grad"
    /\ w_grad' = w_grad_value
    /\ b_grad' = b_grad_value
    /\ beta' = [k \in 1..Kernels |-> RSub(beta[k], Coef(b_grad_value[k].c, 1))]
    /\ call_input' = Null /\ call_output' = Null
    /\ UNCHANGED <<Kernels, W, H, gamma, mean, var, last_mean, last_var, inv_var, input_pre>>
    /\ UNCHANGED <<ctx_input, ctx_errors, ntrain>>

\* lines 224-230
compute_gradients ==
    /\ ContextReady
    /\ op' = "grad"
    /\ w_grad' = w_grad_value
    /\ b_grad' = b_grad_value
    /\ call_input' = Null /\ call_output' = Null
    /\ UNCHANGED <<layer, ctx_input, ctx_errors, ntrain>>

\* gamma and beta are written from outside through the references w and b
\* (lines 40-41): stored weights after init_layer, the optimizer after
\* compute_gradients
set_weights(g, bt) ==
    /\ op \in {"init", "grad"}
    /\ op' = "weights"
    /\ gamma' = [k \in 1..Kernels |-> g]
    /\ beta' = [k \in 1..Kernels |-> bt]
    /\ call_input' = Null /\ call_output' = Null
    /\ UNCHANGED <<Kernels, W, H, mean, var, last_mean, last_var, inv_var, input_pre>>
    /\ UNCHANGED <<context, ntrain>>

Next ==
    \/ \E d \in Dims : init_layer(d)
    \/ \E B \in 1..MaxB : \E input \in Inputs(B) : test_batch_activate_hidden(input)
    \/ \E B \in 1..MaxB : \E input \in Inputs(B) :
          ntrain < MaxTrain /\ train_batch_activate_hidden(input)
    \/ \E pat \in ErrPats : upstream_errors(pat)
    \/ adapt_errors
    \/ backward_batch
    \/ compute_gradients
    \/ \E g \in GammaVals, bt \in BetaVals : set_weights(g, bt)

Spec == Init /\ [][Next]_vars

\* forward passes only, over more mini-batches
NextForward ==
    \/ \E d \in Dims : init_layer(d)
    \/ \E B \in 1..MaxB : \E input \in Inputs(B) : test_batch_activate_hidden(input)
    \/ \E B \in 1..MaxB : \E input \in Inputs(B) :
          ntrain < MaxPasses /\ train_batch_activate_hidden(input)
    \/ \E g \in GammaVals, bt \in BetaVals : set_weights(g, bt)

SpecForward == Init /\ [][NextForward]_vars

\* ------------------------------------------------------------ claims
RAbs(x) == <<Abs(x[1]), x[2]>>
Ones(n) == [k \in 1..n |-> R1]
Zeros(n) == [k \in 1..n |-> R0]

\* the number of observations per channel in the batch t
Obs(t) == Dim0(t) * W * H

\* C1: a training forward pass on a batch with S = B*W*H > 1 leaves, per
\* channel, mean' = momentum*mean + (1-momentum)*last_mean and
\* var' = momentum*var + (1-momentum)*(S/(S-1))*last_var, S/(S-1) being the
\* Bessel ratio (2 for S = 2, 3/2 for S = 3, 4/3 for S = 4).
C1_BesselRunningStats ==
    [][op' = "train" =>
        \A k \in 1..Kernels :
            /\ mean'[k] = RAdd(RMul(momentum, mean[k]),
                               RMul(RSub(R1, momentum), last_mean'[k]))
            /\ var'[k] = RAdd(RMul(momentum, var[k]),
                              RMul(RSub(R1, momentum),
                                   RMul(Rat(Obs(call_input'), Obs(call_input') - 1),
                                        last_var'[k])))]_vars

\* C2: an inference forward pass leaves every field of the layer as it was,
\* the running mean and var change in no other call than a training forward
\* pass, and that pass blends the batch mean in once.
C2_InferenceLeavesState ==
    [][/\ op' = "infer" => UNCHANGED layer
       /\ (op # "new" /\ (mean' # mean \/ var' # var)) => op' = "train"
       /\ op' = "train" =>
            /\ ntrain' = ntrain + 1
            /\ \A k \in 1..Kernels :
                 mean'[k] = RAdd(RMul(Rat(9, 10), mean[k]), RMul(Rat(1, 10), last_mean'[k]))]_vars

\* an inference pass made after a training pass filled the cache
C2_Witness ==
    /\ op = "infer"
    /\ ntrain >= 1
    /\ input_pre # Null
    /\ \E k \in 1..Kernels : inv_var[k] # InvSqrt(var[k])

\* the inference formula for one element
C3_Value(x, k) ==
    SAddR(SScale(RMul(gamma[k], RSub(x, mean[k])), InvSqrt(var[k])), beta[k])

C3_Pointwise ==
    op = "infer" =>
        \A b \in 1..Dim0(call_input) : \A k \in 1..Kernels : \A p \in Positions :
            call_output[b][k][p] = C3_Value(call_input[b][k][p], k)

C3_SameSampleSameOutput ==
    (op = "infer" /\ op' = "infer") =>
        \A b \in 1..Dim0(call_input) :
            (b <= Dim0(call_input') /\ call_input'[b] = call_input[b])
                => call_output'[b] = call_output[b]

\* C3: the inference output for sample b and channel k is
\* gamma*(input - mean)/sqrt(var + e) + beta of that element alone, whatever
\* the other samples and the cached batch statistics; two inference calls in
\* one layer state agree on every sample on which their inputs agree.
C3_InferenceDeterministic ==
    /\ []C3_Pointwise
    /\ [][C3_SameSampleSameOutput]_vars

\* an inference call on a batch whose samples differ, the batch mean differing
\* from the running mean, after a training pass left other cached statistics
C3_Witness ==
    /\ op = "infer"
    /\ ntrain >= 1
    /\ Dim0(call_input) >= 2
    /\ call_input[1] # call_input[2]
    /\ \E k \in 1..Kernels :
        /\ bias_batch_mean_4d(call_input)[k] # mean[k]
        /\ last_mean[k] # mean[k]

\* the sum of the squared deviations of channel k of t from m
C4_SumSq(t, k, m) ==
    LET ch == Channel(t, k)
    IN  SumR(TupN(Len(ch), [i \in 1..Len(ch) |-> RMul(RSub(ch[i], m), RSub(ch[i], m))]))

C4_Values ==
    op = "train" =>
        \A k \in 1..Kernels :
            /\ RMul(RInt(Obs(call_input)), last_mean[k]) = SumR(Channel(call_input, k))
            /\ RMul(RInt(Obs(call_input)), last_var[k]) = C4_SumSq(call_input, k, last_mean[k])
            /\ inv_var[k] = InvSqrt(last_var[k])
            /\ \A b \in 1..Dim0(call_input) : \A p \in Positions :
                /\ input_pre[b][k][p] =
                       SMul(SymR(RSub(call_input[b][k][p], last_mean[k])), inv_var[k])
                /\ call_output[b][k][p] =
                       SAdd(SMul(SymR(gamma[k]), input_pre[b][k][p]), SymR(beta[k]))

\* the batch [2, 4] of K = W = H = 1
C4_Batch == <<<<<<RInt(2)>>>>, <<<<RInt(4)>>>>>>

C4_Example ==
    (/\ op' = "train"
     /\ Kernels = 1 /\ W = 1 /\ H = 1
     /\ call_input' = C4_Batch
     /\ gamma = <<R1>> /\ beta = <<R0>> /\ var = <<R0>>)
    =>  /\ last_mean' = <<RInt(3)>>
        /\ last_var' = <<R1>>
        /\ inv_var' = <<InvSqrt(R1)>>
        /\ input_pre'[1] = <<<<SNeg(InvSqrt(R1))>>>>
        /\ input_pre'[2] = <<<<InvSqrt(R1)>>>>
        /\ call_output' = <<<<<<SNeg(InvSqrt(R1))>>>>, <<<<InvSqrt(R1)>>>>>>
        /\ var' = <<Rat(1, 5)>>

\* C4: after a training forward pass, per channel, last_mean is the mean of
\* the channel over samples and positions, last_var the variance with
\* divisor S, inv_var = 1/sqrt(last_var + e), input_pre the centred input
\* times inv_var and output = gamma*input_pre + beta; the batch [2, 4] gives
\* last_mean 3, last_var 1, input_pre = output = [-1, 1]/sqrt(1 + e) and,
\* from var = 0, the running var 0.2.
C4_TrainForwardValues ==
    /\ []C4_Values
    /\ [][C4_Example]_vars

\* the pass on the batch [2, 4] from var = 0
C4_Witness ==
    /\ op = "train"
    /\ Kernels = 1 /\ W = 1 /\ H = 1
    /\ call_input = C4_Batch
    /\ gamma = <<R1>> /\ beta = <<R0>>
    /\ last_var = <<R1>>
    /\ var = <<Rat(1, 5)>>

\* ---- C5
\* the tolerance of "up to tolerance", relative to the target
Tol == Rat(1, 10000)

\* u >= e and w <= e for small rationals u, w, without forming a product
\* that leaves the 32-bit integers
GeEps(u) ==
    \/ u[1] > 2147483647 \div e_inv
    \/ (u[1] >= 1 /\ u[2] <= u[1] * e_inv)
LeEps(w) ==
    \/ w[1] <= 0
    \/ (w[1] <= 2147483647 \div e_inv /\ w[1] * e_inv <= w[2])

\* x = c0 + c2*s^2, s^2 = 1/(v + e), is within Tol*t of t (t > 0)
Near(x, t) ==
    IF Len(x.c) <= 1
    THEN RLe(RAbs(RSub(Coef(x.c, 1), t)), RMul(Tol, t))
    ELSE /\ Len(x.c) = 3
         /\ x.c[1] = R0 /\ x.c[2] = R0
         /\ RLe(R0, x.tag)
         \* c2/(v+e) >= t*(1-Tol)  and  c2/(v+e) <= t*(1+Tol)
         /\ GeEps(RSub(RDiv(x.c[3], RMul(t, RSub(R1, Tol))), x.tag))
         /\ LeEps(RSub(RDiv(x.c[3], RMul(t, RAdd(R1, Tol))), x.tag))

\* mean and population variance of channel k of the output just written
OutMean(k) ==
    SScale(Rat(1, Obs(call_output)), SumS(Channel(call_output, k)))
OutVar(k) ==
    LET ch == Channel(call_output, k)
        m == OutMean(k)
    IN  SScale(Rat(1, Obs(call_output)),
               SumS(TupN(Len(ch), [i \in 1..Len(ch) |->
                        SMul(SSub(ch[i], m), SSub(ch[i], m))])))

\* C5 (as stated): after a training forward pass the output of every
\* channel, constant channels included, has mean beta and population
\* variance gamma^2 up to tolerance.
C5_UnitVarianceAlways ==
    op = "train" =>
        \A k \in 1..Kernels :
            /\ OutMean(k) = SymR(beta[k])
            /\ Near(OutVar(k), RMul(gamma[k], gamma[k]))

\* C5 (amended): after a training forward pass the output of channel k has
\* mean beta[k] and population variance gamma[k]^2 * last_var[k]/(last_var[k] + e):
\* 0 for a constant channel, within tolerance of gamma[k]^2 as soon as
\* last_var[k] >= e*(1 - Tol)/Tol, and only then.
C5_VarianceScaledByLastVar ==
    op = "train" =>
        \A k \in 1..Kernels :
            /\ OutMean(k) = SymR(beta[k])
            /\ OutVar(k) = SScale(RMul(RMul(gamma[k], gamma[k]), last_var[k]),
                                  SMul(InvSqrt(last_var[k]), InvSqrt(last_var[k])))
            /\ last_var[k] = R0 => OutVar(k) = SZero
            /\ Near(OutVar(k), RMul(gamma[k], gamma[k]))
                 <=> GeEps(RMul(last_var[k], RDiv(Tol, RSub(R1, Tol))))

\* a pass over a batch with a constant channel and one that is not, gamma = 2
C5_Witness ==
    /\ op = "train"
    /\ Kernels = 2
    /\ gamma[1] = RInt(2) /\ beta[1] = R1
    /\ last_var[1] = R0
    /\ last_var[2] # R0
    /\ OutVar(1) = SZero
    /\ OutVar(2) # SZero

\* ---- C6
\* C6: after any sequence of training forward passes the cache input_pre has
\* the shape [B_last, K, W, H] of the batch of the most recent pass.
C6_CacheShapeFollowsBatch ==
    ntrain >= 1 => Shape(input_pre) = Shape(ctx_input)

\* ---- C7
\* x is finite and strictly positive: a positive rational, or a positive
\* multiple of 1/sqrt(v + e) with v >= 0
InvVarPositive(x) ==
    \/ Len(x.c) = 1 /\ RLt(R0, x.c[1])
    \/ /\ Len(x.c) = 2
       /\ x.c[1] = R0 /\ RLt(R0, x.c[2])
       /\ x.tag[2] > 0 /\ RLe(R0, x.tag)

\* C7: in every state after init_layer, the one right after it included,
\* var[k] >= 0, last_var[k] >= 0 and inv_var[k] is finite and strictly
\* positive for every channel k.
C7_VariancesNonNegative ==
    op # "new" =>
        \A k \in 1..Kernels :
            /\ RLe(R0, var[k])
            /\ RLe(R0, last_var[k])
            /\ InvVarPositive(inv_var[k])

\* ---- C8
\* the gradient the claim gives for element (b, k, p), from the cache
C8_GradInput(b, k, p) ==
    LET S == Obs(ctx_input)
        err == Channel(ctx_errors, k)
        xhat == Channel(input_pre, k)
        dxhat_sum == SumR(TupN(Len(err), [i \in 1..Len(err) |-> RMul(err[i], gamma[k])]))
        dxhat_dot_xhat ==
            SumS(TupN(Len(err), [i \in 1..Len(err) |->
                    SScale(RMul(err[i], gamma[k]), xhat[i])]))
    IN  SMul(SScale(Rat(1, S), inv_var[k]),
             SSub(SymR(RSub(RMul(RInt(S), RMul(ctx_errors[b][k][p], gamma[k])), dxhat_sum)),
                  SMul(input_pre[b][k][p], dxhat_dot_xhat)))

C8_Formula ==
    op = "backward" =>
        /\ Shape(call_output) = Shape(ctx_input)
        /\ \A b \in 1..Dim0(ctx_input) : \A k \in 1..Kernels : \A p \in Positions :
            /\ call_output[b][k][p] = C8_GradInput(b, k, p)
            \* the cache is the one of the training pass on context.input
            /\ inv_var[k] = InvSqrt(last_var[k])
            /\ input_pre[b][k][p] =
                   SScale(RSub(ctx_input[b][k][p], last_mean[k]), InvSqrt(last_var[k]))

\* everything the gradient is computed from
C8_Reads == <<inv_var, input_pre, gamma, last_mean, last_var, ctx_input, ctx_errors>>

C8_InferenceBetween ==
    op' = "infer" => UNCHANGED C8_Reads

\* C8: backward_batch writes
\* (inv_var/S)*(S*dxhat - dxhat_sum - input_pre*dxhat_dot_xhat), dxhat =
\* errors*gamma, from the inv_var and input_pre cached by the training
\* forward pass; an inference pass in between changes nothing it reads.
C8_BackwardFromCache ==
    /\ []C8_Formula
    /\ [][C8_InferenceBetween]_vars

\* a backward pass with a gradient that is not zero, the running variance
\* differing from the variance of the batch
C8_Witness ==
    /\ op = "backward"
    /\ gamma[1] = RInt(2)
    /\ \E k \in 1..Kernels :
        /\ var[k] # last_var[k]
        /\ \E b \in 1..Dim0(ctx_input) : \E p \in Positions :
              call_output[b][k][p] # SZero

\* ---- C9
\* C9: compute_gradients sets w_grad[k] to the sum over samples and positions
\* of input_pre*errors, input_pre being (input - last_mean)*inv_var of the
\* training forward pass, and b_grad[k] to the sum of errors.
C9_Gradients ==
    op = "grad" =>
        \A k \in 1..Kernels :
            LET err == Channel(ctx_errors, k)
                xhat == Channel(input_pre, k)
                x == Channel(ctx_input, k)
            IN  /\ w_grad[k] = SumS(TupN(Len(err), [i \in 1..Len(err) |->
                                  SScale(err[i], xhat[i])]))
                /\ w_grad[k] = SumS(TupN(Len(err), [i \in 1..Len(err) |->
                                  SScale(RMul(err[i], RSub(x[i], last_mean[k])),
                                         InvSqrt(last_var[k]))]))
                /\ b_grad[k] = SymR(SumR(err))

\* gradients of a batch where neither is zero
C9_Witness ==
    /\ op = "grad"
    /\ ntrain >= 1
    /\ \E k \in 1..Kernels : w_grad[k] # SZero /\ b_grad[k] # SZero

\* ---- C10
\* C10: adapt_errors, backward_batch and compute_gradients leave every layer
\* field and context.errors as they were; gamma and beta are 1 and 0 after
\* init_layer and change only when they are written from outside.
C10_BackwardFrame ==
    [][/\ op' \in {"adapt", "backward", "grad"} =>
            /\ UNCHANGED layer
            /\ ctx_errors' = ctx_errors
            /\ ctx_input' = ctx_input
       /\ op' = "init" => (gamma' = Ones(Kernels') /\ beta' = Zeros(Kernels'))
       /\ (op # "new" /\ (gamma' # gamma \/ beta' # beta)) => op' = "weights"]_vars

\* gradients computed and gamma, beta still the ones of init_layer
C10_Witness ==
    /\ op = "grad"
    /\ gamma = Ones(Kernels) /\ beta = Zeros(Kernels)
    /\ b_grad # Null
    /\ \A k \in 1..Kernels : b_grad[k] # SZero

====
